---- MODULE Spec2Model ----
(***************************************************************************)
(* Model of the Telegram routing bot of src/main.py: the per-chat session  *)
(* store (mode, model), the password authorization set, the reply bridge   *)
(* (REPLY_MAP) and the handlers registered in main().                      *)
(*                                                                         *)
(* The host runtime (python-telegram-bot, built without concurrent         *)
(* updates) awaits the handler of one update to completion before it takes *)
(* the next update, and within a handler group only the first handler whose*)
(* filter matches runs.  Each action below is therefore one whole handler  *)
(* run on one inbound update; the transport's and the AI provider's        *)
(* answers are inputs of the action.                                       *)
(*                                                                         *)
(* Texts are sequences of word tokens; the token " " is whitespace.        *)
(***************************************************************************)
EXTENDS Integers, Sequences, FiniteSets, TLC

\* ------------------------------------------------------------------ bounds

\* Number of inbound updates processed in one behaviour.
MaxUpdates == 3

\* Number of calls of forward_if_needed in one behaviour of SpecForward.
MaxForwards == 2

\* Number of messages handled in one behaviour of SpecBackup.
MaxMessages == 6

\* Number of updates that arrive in one behaviour of SpecAsync.
MaxArrivals == 3

\* ------------------------------------------------------------ the universe

\* Python's None for an absent user / absent message (ids are never 0).
None == 0

\* Private chats carry the id of their user; groups have negative ids.
Users == {1, 3}
GroupChat == 0 - 10
Chats == Users \cup {GroupChat}

ChatTypeOf(c) == IF c > 0 THEN "private" ELSE "group"

\* Who can author a message in chat c.
SendersOf(c) == IF c > 0 THEN {c} ELSE Users

\* What the transport can answer to one send or copy call.
Outcomes == {"ok", "retry", "forbidden", "error"}

\* What the AI provider can answer to one completion call.
AiOutcomes == {"ok", "fail"}

\* Message texts; <<>> is a message without text (photo, sticker, ...).
Texts ==
  { <<>>, <<"hi", "a<b">>, <<" ">>,
    <<"/start">>, <<"/status">>, <<"/ping">>,
    <<"/chat">>, <<"/forward">>,
    <<"/model">>, <<"/model", "gpt-4o">>,
    <<"/auth">>, <<"/auth", "pw">>, <<"/auth", "PW">>,
    <<"/foo">> }

\* The texts of the messages that are sent as replies.
ReplyTexts == { <<>>, <<"hi", "a<b">>, <<"/ping">>, <<"/foo">> }

\* Values of the environment the process can be started with.
ForwardConfigs == { <<>>, <<3, GroupChat>>, <<1, GroupChat>> }
OwnerConfigs == { {3} }
PasswordConfigs == { "", "pw" }

DEFAULT_MODEL == "gpt-5-mini"

VARIABLES
  FORWARD_TO,        \* list of destination chat ids (fixed at start)
  OWNER_IDS,         \* set of owner user ids (fixed at start)
  AUTH_PASSWORD,     \* shared secret, "" when none is configured
  AUTHORIZED_USERS,  \* set of user ids
  CHAT_MODE,         \* dict chat_id -> "forward" | "chat"
  MODEL_PER_CHAT,    \* dict chat_id -> model string
  REPLY_MAP,         \* dict <<target_chat_id, header_msg_id>> -> user id
  nextId,            \* transport: next message id of every chat
  headers,           \* transport: header messages it accepted, <<chat, id, uid>>
  issued,            \* per chat, the last mode / model command received there
  last,              \* the update handled last and what its handler did
  nUpd,              \* number of updates handled
  user_messages,     \* main_backup.py: dict user id -> list of retained texts
  arrived,           \* per user, the keyword messages it wrote in groups
  inbox,             \* SpecAsync: the update queue of the runtime, oldest first
  tasks              \* SpecAsync: the handlers suspended at an await

vars == << FORWARD_TO, OWNER_IDS, AUTH_PASSWORD, AUTHORIZED_USERS, CHAT_MODE,
           MODEL_PER_CHAT, REPLY_MAP, nextId, headers, issued, last, nUpd,
           user_messages, arrived, inbox, tasks >>

\* The state of the group keyword variant (src/main_backup.py).
backup == << user_messages, arrived >>

\* The state of the runtime when handlers are followed await by await.
runtime == << inbox, tasks >>

config == << FORWARD_TO, OWNER_IDS, AUTH_PASSWORD >>

\* ------------------------------------------------------------ dictionaries

EmptyDict == [k \in {} |-> None]

DictGet(d, k, default) == IF k \in DOMAIN d THEN d[k] ELSE default

DictSet(d, k, v) == [x \in (DOMAIN d) \cup {k} |-> IF x = k THEN v ELSE d[x]]

\* --------------------------------------------------------- session helpers

get_model(chat_id) == DictGet(MODEL_PER_CHAT, chat_id, DEFAULT_MODEL)

\* Mutant: one mode for the whole process instead of one per chat.
set_mode_global(chat_id, mode) ==
  [x \in (DOMAIN CHAT_MODE) \cup Chats |-> mode]

set_mode(chat_id, mode) == DictSet(CHAT_MODE, chat_id, mode)

get_mode(chat_id) == DictGet(CHAT_MODE, chat_id, "forward")

\* Mutant: the owner test never matches (ids kept as strings).
is_owner_never(user_id) == FALSE

is_owner_id(user_id) ==
  IF user_id = None THEN FALSE ELSE user_id \in OWNER_IDS

\* Mutant: without a configured password everybody may chat.
is_authorized_open(user_id) ==
  IF user_id = None THEN FALSE
  ELSE AUTH_PASSWORD = "" \/ is_owner_id(user_id)
         \/ user_id \in AUTHORIZED_USERS

is_authorized_user(user_id) ==
  IF user_id = None THEN FALSE
  ELSE IF is_owner_id(user_id) THEN TRUE
  ELSE user_id \in AUTHORIZED_USERS

\* ------------------------------------------------------------------- texts

\* str.strip(): leading and trailing whitespace removed.
RECURSIVE LStrip(_)
LStrip(t) == IF t # <<>> /\ Head(t) = " " THEN LStrip(Tail(t)) ELSE t

RECURSIVE RStrip(_)
RStrip(t) ==
  IF t # <<>> /\ t[Len(t)] = " " THEN RStrip(SubSeq(t, 1, Len(t) - 1)) ELSE t

Strip(t) == RStrip(LStrip(t))

\* context.args: the words after the command word.
Args(t) == SelectSeq(Tail(t), LAMBDA w : w # " ")

\* html.escape on one word, and on a text.
EscapeWord(w) == IF w = "a<b" THEN "a&lt;b" ELSE w

html_escape(t) == [i \in 1..Len(t) |-> EscapeWord(t[i])]

\* --------------------------------------------------------------- transport

\* An inbound update: one message of chat `chat`, authored by `user`, with the
\* message id the transport gave it; reply_to is the id of the message it
\* replies to, or None.
NoUpdate ==
  [chat |-> None, type |-> "none", user |-> None, id |-> None,
   text |-> <<>>, reply_to |-> None]

\* The messages of chat c an inbound message can reply to.  handle_reply asks
\* one thing of the replied-to message, whether a header was recorded under
\* its id: every header of the chat is a target, and the earliest message that
\* is no header stands for the others.
ReplyTargets(c) ==
  LET ids == 1..(nextId[c] - 1)
      hdr == { r \in ids : \E h \in headers : h[1] = c /\ h[2] = r }
      other == ids \ hdr
  IN hdr \cup { r \in other : \A q \in other : r <= q }

Inbound ==
  UNION { { [chat |-> c, type |-> ChatTypeOf(c), user |-> s, id |-> nextId[c],
             text |-> t, reply_to |-> r] :
              s \in SendersOf(c), t \in Texts,
              r \in {None} \cup ReplyTargets(c) } :
          c \in Chats }

\* The updates the model feeds: a reply carries one of ReplyTexts.
Feed == { u \in Inbound : u.reply_to # None => u.text \in ReplyTexts }

\* The answers of the transport and of the AI provider that the handler of
\* update u draws: one per header send, one per content copy, one for the
\* bridge delivery, one for the reply or notice in the chat of the update, one
\* for the provider.  A call that cannot be made has no answer to draw (it is
\* fixed to "ok").
AllOk == [i \in 1..Len(FORWARD_TO) |-> "ok"]

TargetAnswers(u) ==
  { f \in [1..Len(FORWARD_TO) -> Outcomes] :
      \A i \in 1..Len(FORWARD_TO) : FORWARD_TO[i] = u.chat => f[i] = "ok" }

HeaderAnswers(u) ==
  IF u.type = "private" /\ u.user \notin OWNER_IDS
    THEN TargetAnswers(u) ELSE {AllOk}

CopyAnswers(u) ==
  IF u.type = "private" /\ u.user \notin OWNER_IDS /\ u.text = <<>>
    THEN TargetAnswers(u) ELSE {AllOk}

DeliveryAnswers(u) ==
  IF <<u.chat, u.reply_to>> \in DOMAIN REPLY_MAP
       \/ <<u.user, u.reply_to>> \in DOMAIN REPLY_MAP
    THEN Outcomes ELSE {"ok"}

\* A call that is neither wrapped in _safe_send nor in a try block is either
\* accepted or raises, whatever the error.
PlainAnswers == {"ok", "error"}

FailureNoticeAnswers(o) == IF o = "ok" THEN {"ok"} ELSE PlainAnswers

ChatAnswers(u) ==
  IF u.type = "private" /\ get_mode(u.chat) = "chat"
    THEN PlainAnswers ELSE {"ok"}

ProviderAnswers(u) ==
  IF u.type = "private" /\ get_mode(u.chat) = "chat"
    THEN AiOutcomes ELSE {"ok"}

\* The run of one handler: the reply bridge and the transport as the handler
\* has changed them so far, the calls it has made, the exception pending after
\* the last call ("none" when it returned), the message id it returned, and
\* what the transport answered to the bridge delivery ("none" without one).
Start(u) ==
  [map |-> REPLY_MAP, next |-> [nextId EXCEPT ![u.chat] = @ + 1],
   hdrs |-> headers, sends |-> <<>>, ai |-> <<>>, exc |-> "none", mid |-> None,
   delivery |-> "none"]

ExcOf(o) ==
  CASE o = "ok" -> "none"
    [] o = "retry" -> "RetryAfter"
    [] o = "forbidden" -> "Forbidden"
    [] OTHER -> "Exception"

\* One call of the transport (bot.send_message, bot.copy_message,
\* message.reply_text): the transport answers o.  An accepted message gets the
\* next message id of the destination chat.
TransportCall(r, to, kind, body, uid, ref, o) ==
  LET ok == (o = "ok")
      mid == IF ok THEN r.next[to] ELSE None
  IN [r EXCEPT
        !.sends = Append(@, [to |-> to, kind |-> kind, body |-> body,
                              uid |-> uid, ref |-> ref, ok |-> ok]),
        !.next = IF ok THEN [@ EXCEPT ![to] = @ + 1] ELSE @,
        !.hdrs = IF ok /\ kind = "header" THEN @ \cup {<<to, mid, uid>>} ELSE @,
        !.exc = ExcOf(o),
        !.mid = mid]

\* _safe_send(coro): the call is awaited; on RetryAfter the handler sleeps and
\* awaits the same coroutine object again, which Python refuses with
\* RuntimeError (a coroutine cannot be awaited twice), so the transport is
\* not called a second time.
safe_send(r, to, kind, body, uid, ref, o) ==
  LET r1 == TransportCall(r, to, kind, body, uid, ref, o)
  IN IF r1.exc = "RetryAfter" THEN [r1 EXCEPT !.exc = "RuntimeError"] ELSE r1

\* update.effective_message.reply_text, called without a quote argument and
\* with no defaults set on the bot: a message in the chat of the update, sent
\* as an answer to the message of the update in a group and referring to no
\* message in a private chat.
reply_text(r, u, kind, body, o) ==
  TransportCall(r, u.chat, kind, body, None,
                IF u.type = "private" THEN None ELSE u.id, o)

\* update.effective_chat.send_message: a message in the chat of the update
\* that refers to no other message.
send_message(r, u, kind, body, o) ==
  TransportCall(r, u.chat, kind, body, None, None, o)

\* ------------------------------------------------------ forwarding, bridge

\* _format_private_header: the header carries the sender's id and the
\* escaped text (the display name and handle are copied from the update).
\* An update without a user raises at user.full_name, which is not guarded.
format_private_header(u) ==
  IF u.user = None THEN [raises |-> "AttributeError"]
  ELSE [uid |-> u.user, body |-> html_escape(u.text)]

\* Mutant: the entry is keyed by the sender's chat instead of the target.
record_header_by_user(r, target, user_id) ==
  IF r.mid # None
    THEN [r EXCEPT !.map = DictSet(@, <<user_id, r.mid>>, user_id)]
    ELSE r

\* REPLY_MAP[(target, header_msg.message_id)] = user_id, when the send
\* returned a message with a message id.
record_header(r, target, user_id) ==
  IF r.mid # None
    THEN [r EXCEPT !.map = DictSet(@, <<target, r.mid>>, user_id)]
    ELSE r

\* The body of the loop for one target: header, bridge entry, content copy;
\* an exception of either send is logged and ends the work for this target.
forward_one(r, u, target, user_id, header, ho, co) ==
  LET r1 == safe_send(r, target, "header", header.body, header.uid, None, ho)
      r2 == IF r1.exc # "none" THEN r1 ELSE record_header(r1, target, user_id)
      r3 == IF r2.exc = "none" /\ u.text = <<>>
              THEN safe_send(r2, target, "copy", u.text, None, u.id, co)
              ELSE r2
  IN [r3 EXCEPT !.exc = "none"]

\* Mutant: one try block around the whole loop, the first failed send ends it.
RECURSIVE ForwardLoop_abort(_, _, _, _, _, _, _)
ForwardLoop_abort(i, r, u, user_id, header, hout, cout) ==
  IF i > Len(FORWARD_TO) THEN r
  ELSE IF FORWARD_TO[i] = u.chat
    THEN ForwardLoop_abort(i + 1, r, u, user_id, header, hout, cout)
  ELSE
    LET r1 == forward_one(r, u, FORWARD_TO[i], user_id, header,
                          hout[i], cout[i])
    IN IF \E j \in 1..Len(r1.sends) : ~r1.sends[j].ok THEN r1
       ELSE ForwardLoop_abort(i + 1, r1, u, user_id, header, hout, cout)

\* Mutant: the loop does not skip the chat the message came from.
RECURSIVE ForwardLoop_self(_, _, _, _, _, _, _)
ForwardLoop_self(i, r, u, user_id, header, hout, cout) ==
  IF i > Len(FORWARD_TO) THEN r
  ELSE ForwardLoop_self(i + 1,
                        forward_one(r, u, FORWARD_TO[i], user_id, header,
                                    hout[i], cout[i]),
                        u, user_id, header, hout, cout)

RECURSIVE ForwardLoop(_, _, _, _, _, _, _)
ForwardLoop(i, r, u, user_id, header, hout, cout) ==
  IF i > Len(FORWARD_TO) THEN r
  ELSE IF FORWARD_TO[i] = u.chat
    THEN ForwardLoop(i + 1, r, u, user_id, header, hout, cout)
  ELSE ForwardLoop(i + 1,
                   forward_one(r, u, FORWARD_TO[i], user_id, header,
                               hout[i], cout[i]),
                   u, user_id, header, hout, cout)

\* The forwarding of a private message of a sender who is not an owner: the
\* header is formatted before the loop, and its exception ends the handler
\* before any send.
forward_private(u, r, hout, cout) ==
  LET header == format_private_header(u)
  IN IF "raises" \in DOMAIN header THEN [r EXCEPT !.exc = header.raises]
     ELSE ForwardLoop(1, r, u, IF u.user # None THEN u.user ELSE 0,
                      header, hout, cout)

\* Mutant: a chat in Chat mode is not forwarded.
forward_if_forward_mode(u, r, hout, cout) ==
  IF FORWARD_TO = <<>> THEN r
  ELSE IF is_owner_id(u.user) THEN r
  ELSE IF u.type # "private" THEN r
  ELSE IF get_mode(u.chat) = "chat" THEN r
  ELSE forward_private(u, r, hout, cout)

forward_if_needed(u, r, hout, cout) ==
  IF FORWARD_TO = <<>> THEN r
  ELSE IF is_owner_id(u.user) THEN r
  ELSE IF u.type # "private" THEN r
  ELSE forward_private(u, r, hout, cout)

\* Mutant: the reply is looked up under the replier instead of the chat.
bridge_key_by_user(u) == <<u.user, u.reply_to>>

\* handle_reply: the key looked up in REPLY_MAP.
bridge_key(u) == <<u.chat, u.reply_to>>

\* Mutant: a delivery the target refuses is logged, the replier is not told.
reply_deliver_silent(u, r, user_id, o, nout) ==
  LET r0 == [r EXCEPT !.delivery = o]
      r1 == IF u.text # <<>>
              THEN safe_send(r0, user_id, "bridge", u.text, None, None, o)
              ELSE safe_send(r0, user_id, "bridge_copy", u.text, None, u.id, o)
  IN IF r1.exc = "Forbidden"
       THEN [r1 EXCEPT !.exc = "none"]
     ELSE IF r1.exc # "none"
       THEN reply_text(r1, u, "notice", <<"Delivery failed">>, nout)
     ELSE r1

\* handle_reply, the delivery: o answers the send or copy, nout the failure
\* notice to the replier.
reply_deliver(u, r, user_id, o, nout) ==
  LET r0 == [r EXCEPT !.delivery = o]
      r1 == IF u.text # <<>>
              THEN safe_send(r0, user_id, "bridge", u.text, None, None, o)
              ELSE safe_send(r0, user_id, "bridge_copy", u.text, None, u.id, o)
  IN IF r1.exc = "Forbidden"
       THEN reply_text(r1, u, "notice", <<"Cannot deliver">>, nout)
     ELSE IF r1.exc # "none"
       THEN reply_text(r1, u, "notice", <<"Delivery failed">>, nout)
     ELSE r1

\* Mutant: the entry is taken out of the map when it is used.
reply_run_pop(u, r, o, nout) ==
  IF u.reply_to = None THEN r
  ELSE
    LET user_id == DictGet(r.map, bridge_key(u), None)
        rest == [k \in (DOMAIN r.map) \ {bridge_key(u)} |-> r.map[k]]
    IN IF user_id = None THEN r
       ELSE [reply_deliver(u, r, user_id, o, nout) EXCEPT !.map = rest]

\* handle_reply: nothing for a message that is no reply or whose replied-to
\* message is no recorded header; else the delivery.
reply_run(u, r, o, nout) ==
  IF u.reply_to = None THEN r
  ELSE
    LET user_id == DictGet(r.map, bridge_key(u), None)
    IN IF user_id = None THEN r
       ELSE reply_deliver(u, r, user_id, o, nout)

\* ------------------------------------------------------------------ AI chat

\* ask_gpt: the provider's text, or the diagnostic that starts with the
\* failure marker when the call raised.
ask_gpt(prompt, model, ao) ==
  IF ao = "ok" THEN <<"answer">> ELSE <<"Error from GPT">>

UnauthorizedNotice ==
  IF AUTH_PASSWORD # "" THEN <<"Unauthorized. Use /auth">>
  ELSE <<"GPT chat is restricted">>

\* Mutant: ask_gpt has no try block, the provider's exception leaves the
\* handler and nothing is sent.
chat_step_escape(u, r, mode, nout, ao) ==
  IF u.type # "private" \/ mode # "chat" THEN r
  ELSE IF ~is_authorized_user(u.user)
    THEN reply_text(r, u, "denied", UnauthorizedNotice, nout)
  ELSE IF Strip(u.text) = <<>> THEN r
  ELSE
    LET model == get_model(u.chat)
        reply == ask_gpt(u.text, model, ao)
        r1 == [r EXCEPT !.ai = Append(@, [prompt |-> u.text, model |-> model,
                                          ok |-> ao = "ok"])]
    IN IF ao = "ok" THEN reply_text(r1, u, "answer", reply, nout)
       ELSE [r1 EXCEPT !.exc = "Exception"]

\* The part of handle_message after forward_if_needed.
chat_step(u, r, mode, nout, ao) ==
  IF u.type # "private" \/ mode # "chat" THEN r
  ELSE IF ~is_authorized_user(u.user)
    THEN reply_text(r, u, "denied", UnauthorizedNotice, nout)
  ELSE IF Strip(u.text) = <<>> THEN r
  ELSE
    LET model == get_model(u.chat)
        reply == ask_gpt(u.text, model, ao)
        r1 == [r EXCEPT !.ai = Append(@, [prompt |-> u.text, model |-> model,
                                          ok |-> ao = "ok"])]
    IN reply_text(r1, u, "answer", reply, nout)

\* Mutant: forwarding and chat exclude each other (Chat mode answers, Forward
\* mode forwards).
message_run_exclusive(u, r, hout, cout, nout, ao) ==
  IF get_mode(u.chat) = "chat"
    THEN chat_step(u, r, get_mode(u.chat), nout, ao)
    ELSE forward_if_needed(u, r, hout, cout)

\* handle_message: the mode is read, the message is forwarded, then the chat
\* step runs with the mode read at the start; an exception that escapes
\* forward_if_needed ends the handler.
message_run(u, r, hout, cout, nout, ao) ==
  LET mode == get_mode(u.chat)
      r1 == forward_if_needed(u, r, hout, cout)
  IN IF r1.exc # "none" THEN r1 ELSE chat_step(u, r1, mode, nout, ao)

\* ---------------------------------------------------------------- dispatch

RegisteredCommands ==
  {"/start", "/status", "/ping", "/chat", "/forward", "/model", "/auth"}

\* filters.COMMAND: the text starts with a bot command, registered or not.
IsCommand(t) == t # <<>> /\ Head(t) \in RegisteredCommands \cup {"/foo"}

\* Mutant: the message handler is registered before the reply handler.
Dispatch_message_first(u) ==
  IF u.text # <<>> /\ Head(u.text) \in RegisteredCommands
    THEN Head(u.text)
  ELSE IF u.text # <<>> /\ ~IsCommand(u.text) THEN "handle_message"
  ELSE IF u.reply_to # None THEN "handle_reply"
  ELSE "none"

\* main(): the handlers in registration order; the first that matches runs.
Dispatch(u) ==
  IF u.text # <<>> /\ Head(u.text) \in RegisteredCommands
    THEN Head(u.text)
  ELSE IF u.reply_to # None THEN "handle_reply"
  ELSE IF u.text # <<>> /\ ~IsCommand(u.text) THEN "handle_message"
  ELSE "none"

\* What the chat's members last asked for, read off the inbound text alone.
Observe(u) ==
  LET w == IF u.text = <<>> THEN "" ELSE Head(u.text)
      old == issued[u.chat]
  IN [issued EXCEPT ![u.chat] =
        [mode |-> IF w = "/chat" THEN "chat"
                  ELSE IF w = "/forward" THEN "forward" ELSE old.mode,
         model |-> IF w = "/model" /\ Len(u.text) > 1 THEN u.text[2]
                   ELSE old.model]]

NoRun ==
  [upd |-> NoUpdate, handler |-> "idle", sends |-> <<>>, ai |-> <<>>,
   raised |-> FALSE, delivery |-> "none"]

\* The handler run r of update u becomes the new state.
Commit(u, h, r) ==
  /\ REPLY_MAP' = r.map
  /\ nextId' = r.next
  /\ headers' = r.hdrs
  /\ issued' = Observe(u)
  /\ last' = [upd |-> u, handler |-> h, sends |-> r.sends, ai |-> r.ai,
              raised |-> r.exc # "none", delivery |-> r.delivery]
  /\ nUpd' = nUpd + 1
  /\ UNCHANGED << config, backup, runtime >>

\* The runtime takes the next update only when the handler of the previous
\* one has returned.
Idle == last.handler = "idle"

Ready == Idle /\ nUpd < MaxUpdates

\* ---------------------------------------------------------------- handlers

cmd_start ==
  /\ Ready
  /\ \E u \in Feed, o \in PlainAnswers :
    /\ Dispatch(u) = "/start"
    /\ Commit(u, "cmd_start",
              send_message(Start(u), u, "info",
                           <<EscapeWord(get_mode(u.chat)),
                             EscapeWord(get_model(u.chat))>>, o))
    /\ UNCHANGED << AUTHORIZED_USERS, CHAT_MODE, MODEL_PER_CHAT >>

cmd_ping ==
  /\ Ready
  /\ \E u \in Feed, o \in PlainAnswers :
    /\ Dispatch(u) = "/ping"
    /\ Commit(u, "cmd_ping",
              send_message(Start(u), u, "info", <<"I'm alive">>, o))
    /\ UNCHANGED << AUTHORIZED_USERS, CHAT_MODE, MODEL_PER_CHAT >>

cmd_status ==
  /\ Ready
  /\ \E u \in Feed, o \in PlainAnswers :
    /\ Dispatch(u) = "/status"
    /\ Commit(u, "cmd_status",
              send_message(Start(u), u, "info",
                           <<EscapeWord(get_mode(u.chat)),
                             EscapeWord(get_model(u.chat))>>, o))
    /\ UNCHANGED << AUTHORIZED_USERS, CHAT_MODE, MODEL_PER_CHAT >>

cmd_chat ==
  /\ Ready
  /\ \E u \in Feed, o \in PlainAnswers :
    /\ Dispatch(u) = "/chat"
    /\ CHAT_MODE' = set_mode(u.chat, "chat")
    /\ Commit(u, "cmd_chat",
              send_message(Start(u), u, "info", <<"Switched to Chat mode">>, o))
    /\ UNCHANGED << AUTHORIZED_USERS, MODEL_PER_CHAT >>

cmd_forward ==
  /\ Ready
  /\ \E u \in Feed, o \in PlainAnswers :
    /\ Dispatch(u) = "/forward"
    /\ CHAT_MODE' = set_mode(u.chat, "forward")
    /\ Commit(u, "cmd_forward",
              send_message(Start(u), u, "info",
                         <<"Switched to Forward-only mode">>, o))
    /\ UNCHANGED << AUTHORIZED_USERS, MODEL_PER_CHAT >>

\* cmd_model: the new MODEL_PER_CHAT and the confirmation text.
model_set(chat_id, args) ==
  IF args = <<>> THEN MODEL_PER_CHAT
  ELSE DictSet(MODEL_PER_CHAT, chat_id, args[1])

cmd_model ==
  /\ Ready
  /\ \E u \in Feed, o \in PlainAnswers :
    /\ Dispatch(u) = "/model"
    /\ MODEL_PER_CHAT' = model_set(u.chat, Args(u.text))
    /\ Commit(u, "cmd_model",
              send_message(Start(u), u, "info",
                         IF Args(u.text) = <<>> THEN <<"Usage: /model <name>">>
                         ELSE <<"Model set to", EscapeWord(Args(u.text)[1])>>,
                         o))
    /\ UNCHANGED << AUTHORIZED_USERS, CHAT_MODE >>

\* Mutant: the password is compared without regard to case.
LowerWord(w) == IF w = "PW" THEN "pw" ELSE w

auth_result_nocase(user_id, args) ==
  IF user_id = None THEN "NoUser"
  ELSE IF is_owner_id(user_id) THEN "Owner"
  ELSE IF AUTH_PASSWORD = "" THEN "NoSecretConfigured"
  ELSE IF args = <<>> THEN "Usage"
  ELSE IF LowerWord(args[1]) = LowerWord(AUTH_PASSWORD) THEN "Authorized"
  ELSE "WrongSecret"

\* cmd_auth: the outcome for user_id with arguments args ("Owner" is the
\* owner's "you already have access", "Usage" the answer to a missing
\* argument), and the new AUTHORIZED_USERS.
auth_result(user_id, args) ==
  IF user_id = None THEN "NoUser"
  ELSE IF is_owner_id(user_id) THEN "Owner"
  ELSE IF AUTH_PASSWORD = "" THEN "NoSecretConfigured"
  ELSE IF args = <<>> THEN "Usage"
  ELSE IF args[1] = AUTH_PASSWORD THEN "Authorized"
  ELSE "WrongSecret"

\* Mutant: the set is rebuilt at every /auth instead of added to.
auth_set_rebuilt(user_id, args) ==
  IF auth_result(user_id, args) = "Authorized" THEN {user_id} ELSE {}

auth_set(user_id, args) ==
  IF auth_result(user_id, args) = "Authorized"
    THEN AUTHORIZED_USERS \cup {user_id}
    ELSE AUTHORIZED_USERS

cmd_auth ==
  /\ Ready
  /\ \E u \in Feed, o \in PlainAnswers :
    /\ Dispatch(u) = "/auth"
    /\ AUTHORIZED_USERS' = auth_set(u.user, Args(u.text))
    /\ Commit(u, "cmd_auth",
              IF auth_result(u.user, Args(u.text)) = "NoUser" THEN Start(u)
              ELSE send_message(Start(u), u, "auth",
                              <<auth_result(u.user, Args(u.text))>>, o))
    /\ UNCHANGED << CHAT_MODE, MODEL_PER_CHAT >>

handle_reply ==
  /\ Ready
  /\ \E u \in { x \in Feed : Dispatch(x) = "handle_reply" } :
      \E o \in DeliveryAnswers(u) :
        \E nout \in FailureNoticeAnswers(o) :
          /\ Commit(u, "handle_reply", reply_run(u, Start(u), o, nout))
          /\ UNCHANGED << AUTHORIZED_USERS, CHAT_MODE, MODEL_PER_CHAT >>

handle_message ==
  /\ Ready
  /\ \E u \in { x \in Feed : Dispatch(x) = "handle_message" } :
    \E hout \in HeaderAnswers(u), cout \in CopyAnswers(u),
       nout \in ChatAnswers(u), ao \in ProviderAnswers(u) :
      /\ Commit(u, "handle_message",
                message_run(u, Start(u), hout, cout, nout, ao))
      /\ UNCHANGED << AUTHORIZED_USERS, CHAT_MODE, MODEL_PER_CHAT >>

\* An update no registered handler matches is dropped.
unhandled ==
  /\ Ready
  /\ \E u \in Feed :
    /\ Dispatch(u) = "none"
    /\ Commit(u, "none", Start(u))
    /\ UNCHANGED << AUTHORIZED_USERS, CHAT_MODE, MODEL_PER_CHAT >>

\* The handler has returned (or its exception was logged by the runtime):
\* the runtime goes back to polling.
update_done ==
  /\ ~Idle
  /\ last' = NoRun
  /\ UNCHANGED << config, AUTHORIZED_USERS, CHAT_MODE, MODEL_PER_CHAT,
                  REPLY_MAP, nextId, headers, issued, nUpd, backup, runtime >>

\* ----------------------------------------------------------- specification

Init ==
  /\ FORWARD_TO \in ForwardConfigs
  /\ OWNER_IDS \in OwnerConfigs
  /\ AUTH_PASSWORD \in PasswordConfigs
  /\ AUTHORIZED_USERS = {}
  /\ CHAT_MODE = EmptyDict
  /\ MODEL_PER_CHAT = EmptyDict
  /\ REPLY_MAP = EmptyDict
  /\ nextId = [c \in Chats |-> 1]
  /\ headers = {}
  /\ issued = [c \in Chats |-> [mode |-> "none", model |-> "none"]]
  /\ last = NoRun
  /\ nUpd = 0
  /\ user_messages = EmptyDict
  /\ arrived = [p \in Users |-> <<>>]
  /\ inbox = <<>>
  /\ tasks = {}

Next ==
  \/ cmd_start
  \/ cmd_status
  \/ cmd_ping
  \/ cmd_chat
  \/ cmd_forward
  \/ cmd_model
  \/ cmd_auth
  \/ handle_reply
  \/ handle_message
  \/ unhandled
  \/ update_done

Spec == Init /\ [][Next]_vars

\* ------------------------------------- forward_if_needed, called on its own

\* forward_if_needed applied to any update, a message without text included,
\* whatever handler would have been dispatched for it.
forward_call ==
  /\ Idle
  /\ nUpd < MaxForwards
  /\ \E u \in Feed :
      \E hout \in HeaderAnswers(u), cout \in CopyAnswers(u) :
        /\ Commit(u, "forward_if_needed",
                  forward_if_needed(u, Start(u), hout, cout))
        /\ UNCHANGED << AUTHORIZED_USERS, CHAT_MODE, MODEL_PER_CHAT >>

NextForward ==
  \/ forward_call
  \/ update_done

SpecForward == Init /\ [][NextForward]_vars

\* --------------------------------- group keyword variant (main_backup.py)

\* Texts are sequences of characters here, so that lower-casing and the
\* substring test are computed; a character outside ASCII is written as its
\* code point.
UpperCase ==
  << "A", "B", "C", "D", "E", "F", "G", "H", "I", "J", "K", "L", "M",
     "N", "O", "P", "Q", "R", "S", "T", "U", "V", "W", "X", "Y", "Z" >>

LowerCase ==
  << "a", "b", "c", "d", "e", "f", "g", "h", "i", "j", "k", "l", "m",
     "n", "o", "p", "q", "r", "s", "t", "u", "v", "w", "x", "y", "z" >>

LowerChar(c) ==
  IF \E i \in 1..26 : UpperCase[i] = c
    THEN LowerCase[CHOOSE i \in 1..26 : UpperCase[i] = c]
    ELSE c

\* str.lower()
Lower(t) == [i \in 1..Len(t) |-> LowerChar(t[i])]

\* k in t, for strings
IsSubstring(k, t) ==
  \E i \in 1..(Len(t) - Len(k) + 1) : SubSeq(t, i, i + Len(k) - 1) = k

KEYWORDS ==
  << << "N", "e", "t", "f", "l", "i", "x" >>,
     << "Y", "o", "u", "T", "u", "b", "e" >>,
     << "s", "h", "a", "r", "e", "d" >>,
     << "r", "e", "n", "t" >>,
     << "g", "r", "o", "u", "p" >>,
     << "U+4E0A", "U+8F66" >>,
     << "U+5408", "U+79DF" >> >>

\* any(k.lower() in text.lower() for k in KEYWORDS)
triggered(text) ==
  \E j \in 1..Len(KEYWORDS) : IsSubstring(Lower(KEYWORDS[j]), Lower(text))

\* The texts of the messages fed to the variant: a keyword in capitals, a
\* keyword inside a longer word, a keyword cut short, no keyword.
BackupTexts ==
  { << "R", "E", "N", "T" >>,
    << "p", "a", "r", "e", "n", "t", "s" >>,
    << "r", "e", "n" >>,
    << "h", "i" >> }

\* Mutant: the first five messages are kept, later ones are dropped.
LastFive_first(msgs) == SubSeq(msgs, 1, IF Len(msgs) < 5 THEN Len(msgs) ELSE 5)

\* msgs[-5:]
LastFive(msgs) ==
  SubSeq(msgs, IF Len(msgs) > 5 THEN Len(msgs) - 4 ELSE 1, Len(msgs))

\* handle_message of main_backup.py, what it does to user_messages: a private
\* message is answered or forwarded and returns; a group message with a
\* keyword is appended to its author's list, which is cut to its last five,
\* before the summary is asked for and sent.
retain(chat_type, uid, text) ==
  IF chat_type = "private" THEN user_messages
  ELSE IF triggered(text)
    THEN DictSet(user_messages, uid,
                 LastFive(Append(DictGet(user_messages, uid, <<>>), text)))
  ELSE user_messages

backup_handle_message ==
  /\ nUpd < MaxMessages
  /\ \E chat_type \in {"private", "group"}, uid \in Users, text \in BackupTexts :
      /\ user_messages' = retain(chat_type, uid, text)
      /\ arrived' = IF chat_type = "group" /\ triggered(text)
                      THEN [arrived EXCEPT ![uid] = Append(@, text)]
                      ELSE arrived
      /\ nUpd' = nUpd + 1
  /\ UNCHANGED << config, AUTHORIZED_USERS, CHAT_MODE, MODEL_PER_CHAT,
                  REPLY_MAP, nextId, headers, issued, last, runtime >>

InitBackup ==
  /\ Init
  /\ FORWARD_TO = <<>>
  /\ AUTH_PASSWORD = ""

NextBackup == backup_handle_message

SpecBackup == InitBackup /\ [][NextBackup]_vars

\* ------------------------------------------- handlers, await by await

\* The same handlers with their awaits as separate steps.  Updates arrive in
\* inbox at any time; the runtime takes the oldest one and runs its handler up
\* to the first await; a suspended handler is an element of tasks and goes on
\* when the call it awaits has been answered.

AsyncTexts ==
  { <<"hi", "a<b">>, <<"/chat">>, <<"/forward">>, <<"/model", "gpt-4o">> }

\* The updates that can arrive: a text or command in a private chat, a text
\* reply in the group.
Arrivals ==
  { [chat |-> c, type |-> "private", user |-> c, id |-> nextId[c],
     text |-> t, reply_to |-> None] : c \in Users, t \in AsyncTexts }
  \cup
  { [chat |-> GroupChat, type |-> "group", user |-> p,
     id |-> nextId[GroupChat], text |-> <<"hi", "a<b">>, reply_to |-> h] :
       p \in SendersOf(GroupChat), h \in ReplyTargets(GroupChat) }

\* What the members of the chat can expect of update u when it arrives: the
\* mode and model of the commands received so far in its chat, and whether it
\* replies to a header that is in the destination but not yet in REPLY_MAP.
Wanted(u) ==
  [mode |-> IF issued[u.chat].mode = "none" THEN "forward"
            ELSE issued[u.chat].mode,
   model |-> IF issued[u.chat].model = "none" THEN DEFAULT_MODEL
             ELSE issued[u.chat].model,
   early |-> /\ u.reply_to # None
             /\ \E x \in headers : x[1] = u.chat /\ x[2] = u.reply_to
             /\ <<u.chat, u.reply_to>> \notin DOMAIN REPLY_MAP]

\* A handler suspended at an await: pc names the awaited call, mode is the
\* mode handle_message read when it started, i the index in FORWARD_TO, to the
\* chat of the awaited send, mid the id of the header the transport accepted.
NewTask(u, w, pc) ==
  [upd |-> u, want |-> w, pc |-> pc, mode |-> get_mode(u.chat), i |-> 0,
   to |-> u.chat, mid |-> None, model |-> "", reply |-> <<>>]

\* handle_message after forward_if_needed: the handler returns, or awaits the
\* access notice, or reads the model and awaits the provider.
chat_begin(t) ==
  IF t.upd.type # "private" \/ t.mode # "chat" THEN {}
  ELSE IF ~is_authorized_user(t.upd.user) THEN {[t EXCEPT !.pc = "deny"]}
  ELSE IF Strip(t.upd.text) = <<>> THEN {}
  ELSE {[t EXCEPT !.pc = "ai", !.model = get_model(t.upd.chat)]}

\* The loop of forward_if_needed from index i on: the header send to the next
\* target other than the chat of the message is awaited.
forward_from(t, i) ==
  LET rest == { j \in i..Len(FORWARD_TO) : FORWARD_TO[j] # t.upd.chat }
  IN IF rest = {} THEN chat_begin(t)
     ELSE LET j == CHOOSE k \in rest : \A m \in rest : k <= m
          IN {[t EXCEPT !.pc = "header", !.i = j, !.to = FORWARD_TO[j]]}

forward_begin(t) ==
  IF FORWARD_TO = <<>> \/ is_owner_id(t.upd.user) \/ t.upd.type # "private"
    THEN chat_begin(t)
  ELSE IF "raises" \in DOMAIN format_private_header(t.upd) THEN {}
  ELSE forward_from(t, 1)

\* Mutant: the application is built with concurrent_updates(True).
RuntimeFree_concurrent == TRUE

\* Application.builder().build(): updates are not processed concurrently and
\* handlers block, the runtime awaits the handler of one update before it
\* takes the next.
RuntimeFree == tasks = {}

\* Mutant: the newest update is taken first.
NextIndex_newest == Len(inbox)

\* The update queue is first in, first out.
NextIndex == 1

\* An update arrives from Telegram.
receive ==
  /\ nUpd < MaxArrivals
  /\ \E u \in Arrivals :
      /\ inbox' = Append(inbox, [upd |-> u, want |-> Wanted(u)])
      /\ nextId' = [nextId EXCEPT ![u.chat] = @ + 1]
      /\ issued' = Observe(u)
  /\ nUpd' = nUpd + 1
  /\ UNCHANGED << config, AUTHORIZED_USERS, CHAT_MODE, MODEL_PER_CHAT,
                  REPLY_MAP, headers, last, backup, tasks >>

\* The runtime takes an update and runs its handler up to the first await.
take ==
  /\ RuntimeFree
  /\ inbox # <<>>
  /\ LET e == inbox[NextIndex]
         u == e.upd
         h == Dispatch(u)
         user_id == DictGet(REPLY_MAP, bridge_key(u), None)
     IN /\ inbox' = [k \in 1..(Len(inbox) - 1) |->
                       IF k < NextIndex THEN inbox[k] ELSE inbox[k + 1]]
        /\ CHAT_MODE' = IF h = "/chat" THEN set_mode(u.chat, "chat")
                        ELSE IF h = "/forward" THEN set_mode(u.chat, "forward")
                        ELSE CHAT_MODE
        /\ MODEL_PER_CHAT' = IF h = "/model" THEN model_set(u.chat, Args(u.text))
                             ELSE MODEL_PER_CHAT
        /\ tasks' = tasks \cup
             ( IF h \in {"/chat", "/forward", "/model"}
                 THEN {NewTask(u, e.want, "confirm")}
               ELSE IF h = "handle_reply"
                 THEN IF user_id = None THEN {}
                      ELSE {[NewTask(u, e.want, "deliver") EXCEPT !.to = user_id]}
               ELSE IF h = "handle_message"
                 THEN forward_begin(NewTask(u, e.want, "start"))
               ELSE {} )
  /\ UNCHANGED << config, AUTHORIZED_USERS, REPLY_MAP, nextId, headers, issued,
                  last, nUpd, backup >>

\* The transport accepts an awaited header send: the header is in the
\* destination chat from now on, its id is on the way back to the handler.
header_accepted ==
  /\ \E t \in tasks :
      /\ t.pc = "header"
      /\ headers' = headers \cup {<<t.to, nextId[t.to], t.upd.user>>}
      /\ nextId' = [nextId EXCEPT ![t.to] = @ + 1]
      /\ tasks' = (tasks \ {t}) \cup
                    {[t EXCEPT !.pc = "inserting", !.mid = nextId[t.to]]}
  /\ UNCHANGED << config, AUTHORIZED_USERS, CHAT_MODE, MODEL_PER_CHAT,
                  REPLY_MAP, issued, last, nUpd, backup, inbox >>

\* The transport refuses an awaited header send: the exception is logged and
\* the loop goes on.
header_refused ==
  /\ \E t \in tasks :
      /\ t.pc = "header"
      /\ tasks' = (tasks \ {t}) \cup forward_from(t, t.i + 1)
  /\ UNCHANGED << config, AUTHORIZED_USERS, CHAT_MODE, MODEL_PER_CHAT,
                  REPLY_MAP, nextId, headers, issued, last, nUpd, backup,
                  inbox >>

\* The handler resumes with the header message, records the entry and goes
\* on with the loop.
header_recorded ==
  /\ \E t \in tasks :
      /\ t.pc = "inserting"
      /\ REPLY_MAP' = DictSet(REPLY_MAP, <<t.to, t.mid>>, t.upd.user)
      /\ tasks' = (tasks \ {t}) \cup forward_from(t, t.i + 1)
  /\ UNCHANGED << config, AUTHORIZED_USERS, CHAT_MODE, MODEL_PER_CHAT,
                  nextId, headers, issued, last, nUpd, backup, inbox >>

\* The AI provider answers the pending completion.
provider_answers ==
  /\ \E t \in tasks, ao \in AiOutcomes :
      /\ t.pc = "ai"
      /\ tasks' = (tasks \ {t}) \cup
                    {[t EXCEPT !.pc = "answer",
                               !.reply = ask_gpt(t.upd.text, t.model, ao)]}
  /\ UNCHANGED << config, AUTHORIZED_USERS, CHAT_MODE, MODEL_PER_CHAT,
                  REPLY_MAP, nextId, headers, issued, last, nUpd, backup,
                  inbox >>

\* The transport answers the bridge delivery: accepted, or the failure notice
\* to the replier is awaited next.
deliver_done ==
  /\ \E t \in tasks, o \in Outcomes :
      /\ t.pc = "deliver"
      /\ nextId' = IF o = "ok" THEN [nextId EXCEPT ![t.to] = @ + 1] ELSE nextId
      /\ tasks' = (tasks \ {t}) \cup
                    (IF o = "ok" THEN {}
                     ELSE {[t EXCEPT !.pc = "notice", !.to = t.upd.chat]})
  /\ UNCHANGED << config, AUTHORIZED_USERS, CHAT_MODE, MODEL_PER_CHAT,
                  REPLY_MAP, headers, issued, last, nUpd, backup, inbox >>

\* The transport answers the last call of a handler (a command's
\* confirmation, the access notice, the AI answer, the failure notice): the
\* handler returns or raises.
reply_done ==
  /\ \E t \in tasks, o \in PlainAnswers :
      /\ t.pc \in {"confirm", "deny", "answer", "notice"}
      /\ nextId' = IF o = "ok" THEN [nextId EXCEPT ![t.upd.chat] = @ + 1]
                   ELSE nextId
      /\ tasks' = tasks \ {t}
  /\ UNCHANGED << config, AUTHORIZED_USERS, CHAT_MODE, MODEL_PER_CHAT,
                  REPLY_MAP, headers, issued, last, nUpd, backup, inbox >>

\* User 1 has authorized itself with the password and switched its private
\* chat to Chat mode (two commands, each confirmed), nothing else happened.
InitAsync ==
  /\ FORWARD_TO = <<3, GroupChat>>
  /\ OWNER_IDS = {3}
  /\ AUTH_PASSWORD = "pw"
  /\ AUTHORIZED_USERS = {1}
  /\ CHAT_MODE = DictSet(EmptyDict, 1, "chat")
  /\ MODEL_PER_CHAT = EmptyDict
  /\ REPLY_MAP = EmptyDict
  /\ nextId = [c \in Chats |-> IF c = 1 THEN 5 ELSE 1]
  /\ headers = {}
  /\ issued = [c \in Chats |->
                 [mode |-> IF c = 1 THEN "chat" ELSE "none", model |-> "none"]]
  /\ last = NoRun
  /\ nUpd = 0
  /\ user_messages = EmptyDict
  /\ arrived = [p \in Users |-> <<>>]
  /\ inbox = <<>>
  /\ tasks = {}

NextAsync ==
  \/ receive
  \/ take
  \/ header_accepted
  \/ header_refused
  \/ header_recorded
  \/ provider_answers
  \/ deliver_done
  \/ reply_done

SpecAsync == InitAsync /\ [][NextAsync]_vars

\* The program of Spec, handler by handler, continued from the state in which
\* user 1 is authorized and its chat is in Chat mode: the owner and an
\* authorized user can reach the provider with their first message.
SpecSession == InitAsync /\ [][Next]_vars

\* ------------------------------------------------------------------ claims

\* The calls of kind k the last handler made, in order.
SendsOfKind(k) == SelectSeq(last.sends, LAMBDA e : e.kind = k)

BridgeKinds == {"bridge", "bridge_copy"}

\* The keys of the header messages the transport accepted.
HeaderKeys == { <<x[1], x[2]>> : x \in headers }

\* An inbound message that replies to another one and is not one of the
\* bot's commands.
IsReplyMessage(u) ==
  /\ u.type # "none"
  /\ u.reply_to # None
  /\ (u.text = <<>> \/ Head(u.text) \notin RegisteredCommands)

\* C1: reply-bridge round trip.  When the last update is a reply in chat d to
\* message h, and h is a header the forward path sent to d for sender s, the
\* handler's first call delivers to exactly s; when (d, h) is no header, the
\* reply resolves to nothing and the handler makes no call at all.
C1_RoundTrip ==
  LET u == last.upd
  IN IsReplyMessage(u) =>
       /\ \A x \in headers :
            (x[1] = u.chat /\ x[2] = u.reply_to) =>
              /\ last.sends # <<>>
              /\ last.sends[1].kind \in BridgeKinds
              /\ last.sends[1].to = x[3]
       /\ (<<u.chat, u.reply_to>> \notin HeaderKeys => last.sends = <<>>)

\* C1 witness: a text reply in the group to a header was delivered to user 1.
C1_Witness ==
  /\ IsReplyMessage(last.upd)
  /\ last.upd.chat = GroupChat
  /\ <<GroupChat, last.upd.reply_to, 1>> \in headers
  /\ last.sends # <<>>
  /\ last.sends[1].kind = "bridge"
  /\ last.sends[1].to = 1
  /\ last.sends[1].ok

\* A text message that is neither a reply nor a command: what reaches the
\* unified message handler.
IsPlainMessage(u) ==
  /\ u.type # "none"
  /\ u.reply_to = None
  /\ u.text # <<>>
  /\ ~IsCommand(u.text)

\* The mode and model the members of chat c last asked for.
ModeOf(c) == IF issued[c].mode = "none" THEN "forward" ELSE issued[c].mode

ModelOf(c) == IF issued[c].model = "none" THEN DEFAULT_MODEL ELSE issued[c].model

Authorized(user) == user \in OWNER_IDS \cup AUTHORIZED_USERS

HasVisibleText(t) == \E i \in 1..Len(t) : t[i] # " "

\* C2: the AI provider is called for the last update only if its chat is
\* private, the chat's mode is Chat, the sender is an owner or in
\* AUTHORIZED_USERS and the text is not blank; an unauthorized sender's message
\* in a private Chat-mode chat is answered with the access notice and causes
\* no provider call, with or without a configured password.
C2_AiGate ==
  LET u == last.upd
  IN /\ last.ai # <<>> =>
          /\ u.type = "private"
          /\ ModeOf(u.chat) = "chat"
          /\ Authorized(u.user)
          /\ HasVisibleText(u.text)
          /\ Len(last.ai) = 1
     /\ ( /\ IsPlainMessage(u)
          /\ u.type = "private"
          /\ ModeOf(u.chat) = "chat"
          /\ ~Authorized(u.user) ) =>
          /\ last.ai = <<>>
          /\ Len(SendsOfKind("denied")) = 1
          /\ SendsOfKind("denied")[1].to = u.chat
          /\ SendsOfKind("answer") = <<>>

\* C2 witness: no password configured, user 1 (never authorized) wrote in its
\* private chat in Chat mode and got the access notice.
C2_Witness ==
  /\ AUTH_PASSWORD = ""
  /\ IsPlainMessage(last.upd)
  /\ last.upd.user = 1
  /\ last.upd.type = "private"
  /\ ModeOf(1) = "chat"
  /\ SendsOfKind("denied") # <<>>
  /\ SendsOfKind("denied")[1].ok
  /\ last.ai = <<>>

\* C3: a reply that resolves through the reply bridge is sent to the original
\* sender's private chat, whatever the type and mode of the chat it arrives
\* in and whoever wrote it, and nothing else is done with it: no header, no
\* content copy to a destination, no provider call, no answer, no access
\* notice.
C3_BridgeTerminal ==
  LET u == last.upd
      key == <<u.chat, u.reply_to>>
  IN (IsReplyMessage(u) /\ key \in DOMAIN REPLY_MAP) =>
       /\ last.sends # <<>>
       /\ last.sends[1].kind \in BridgeKinds
       /\ last.sends[1].to = REPLY_MAP[key]
       /\ ChatTypeOf(last.sends[1].to) = "private"
       /\ \A i \in 2..Len(last.sends) : last.sends[i].kind = "notice"
       /\ last.ai = <<>>

\* C3 witness: user 1, neither owner nor authorized, replied in the group,
\* whose mode is Chat, to a header, and the reply reached a private chat.
C3_Witness ==
  /\ IsReplyMessage(last.upd)
  /\ last.upd.chat = GroupChat
  /\ last.upd.user = 1
  /\ ~Authorized(1)
  /\ ModeOf(GroupChat) = "chat"
  /\ <<GroupChat, last.upd.reply_to>> \in DOMAIN REPLY_MAP
  /\ last.sends # <<>>
  /\ last.sends[1].kind = "bridge"
  /\ last.sends[1].ok

\* The three actions a message can trigger.
Bridged == \E i \in 1..Len(last.sends) : last.sends[i].kind \in BridgeKinds

Forwarded == SendsOfKind("header") # <<>>

AiChat ==
  \/ last.ai # <<>>
  \/ SendsOfKind("answer") # <<>>
  \/ SendsOfKind("denied") # <<>>

\* A destination other than the chat of the update is configured.
HasOtherTarget(u) == \E i \in 1..Len(FORWARD_TO) : FORWARD_TO[i] # u.chat

\* The messages that are both forwarded and handled by the chat step.
ForwardAndChat(u) ==
  /\ IsPlainMessage(u)
  /\ u.type = "private"
  /\ u.user \notin OWNER_IDS
  /\ ModeOf(u.chat) = "chat"
  /\ HasOtherTarget(u)
  /\ (Authorized(u.user) => HasVisibleText(u.text))

\* C4 as stated: no message triggers two of reply-bridge delivery,
\* forwarding and AI chat (answer or authorization prompt).
C4_ExactlyOne ==
  /\ ~(Bridged /\ Forwarded)
  /\ ~(Bridged /\ AiChat)
  /\ ~(Forwarded /\ AiChat)

\* C4 amended: reply-bridge delivery is never combined with forwarding or AI
\* chat, but forwarding and AI chat are combined: a message is both forwarded
\* and handled by the AI chat step exactly when it is a non-owner's private
\* text message in a Chat-mode chat and a destination other than that chat is
\* configured.
C4_BridgeAloneForwardWithChat ==
  /\ ~(Bridged /\ Forwarded)
  /\ ~(Bridged /\ AiChat)
  /\ (Forwarded /\ AiChat) <=> ForwardAndChat(last.upd)

\* C4 witness: one message was sent as a header and answered with the access
\* notice.
C4_Witness ==
  /\ Forwarded
  /\ SendsOfKind("header")[1].ok
  /\ SendsOfKind("denied") # <<>>
  /\ SendsOfKind("denied")[1].ok

\* The configured destinations other than chat c, in configuration order.
OtherTargets(c) == SelectSeq(FORWARD_TO, LAMBDA t : t # c)

\* The chats the last handler sent a header to, in order.
HeaderTargets == [i \in 1..Len(SendsOfKind("header")) |-> SendsOfKind("header")[i].to]

\* C5: forwarding does not depend on the mode.  A non-owner's private message
\* that reaches the message handler (a text that is neither a command nor a
\* reply) is sent as a header, carrying the sender's id, to every configured
\* destination other than its own chat, in Forward mode and in Chat mode.
C5_ForwardAnyMode ==
  LET u == last.upd
  IN ( /\ IsPlainMessage(u)
       /\ u.type = "private"
       /\ u.user \notin OWNER_IDS
       /\ FORWARD_TO # <<>> ) =>
       /\ HeaderTargets = OtherTargets(u.chat)
       /\ \A i \in 1..Len(SendsOfKind("header")) :
            SendsOfKind("header")[i].uid = u.user

\* C5 witness: in Chat mode, user 1's message went to both destinations.
C5_Witness ==
  /\ IsPlainMessage(last.upd)
  /\ last.upd.chat = 1
  /\ ModeOf(1) = "chat"
  /\ FORWARD_TO = <<3, GroupChat>>
  /\ HeaderTargets = <<3, GroupChat>>
  /\ \A i \in 1..2 : SendsOfKind("header")[i].ok

\* The step of C6: a message authored by an owner is never forwarded (no header, no
\* content copy to a destination) and leaves the reply bridge as it was; when
\* it arrives in the owner's private chat and that chat is in Forward mode, it
\* causes no provider call either.
C6_OwnerStep ==
  (last'.upd.user \in OWNER_IDS) =>
    /\ SendsOfKind("header")' = <<>>
    /\ SendsOfKind("copy")' = <<>>
    /\ REPLY_MAP' = REPLY_MAP
    /\ headers' = headers
    /\ (last'.upd.type = "private" /\ ModeOf(last'.upd.chat) = "forward") =>
         last'.ai = <<>>

\* C6: every step that handles an owner's message forwards nothing, creates
\* no reply-bridge entry and, in the owner's private chat in Forward mode,
\* calls no provider.
C6_OwnerNeverForwarded == [][C6_OwnerStep]_vars

\* C6 witness: with destinations configured, the owner wrote a text in the
\* private chat, in Forward mode, and the handler did nothing.
C6_Witness ==
  /\ FORWARD_TO = <<1, GroupChat>>
  /\ IsPlainMessage(last.upd)
  /\ last.upd.user = 3
  /\ last.upd.chat = 3
  /\ last.handler = "handle_message"
  /\ ModeOf(3) = "forward"
  /\ last.sends = <<>>
  /\ last.ai = <<>>

\* The step of C7, /auth from principal p.  An owner is told it has access, whatever
\* secret it supplies; otherwise without a configured secret the answer is
\* NoSecretConfigured; otherwise a supplied secret that differs from the
\* configured one (case matters) gives WrongSecret; otherwise p joins
\* AUTHORIZED_USERS.  Every other outcome leaves AUTHORIZED_USERS unchanged,
\* and a repeated successful call succeeds again and leaves it unchanged.
C7_AuthStep ==
  LET u == last'.upd
      p == u.user
      supplied == Len(u.text) >= 2
      result == last'.sends[1].body[1]
  IN (u.type # "none" /\ u.text # <<>> /\ Head(u.text) = "/auth") =>
       /\ Len(last'.sends) = 1
       /\ last'.sends[1].kind = "auth"
       /\ IF p \in OWNER_IDS
            THEN result = "Owner" /\ AUTHORIZED_USERS' = AUTHORIZED_USERS
          ELSE IF AUTH_PASSWORD = ""
            THEN /\ result = "NoSecretConfigured"
                 /\ AUTHORIZED_USERS' = AUTHORIZED_USERS
          ELSE IF supplied /\ u.text[2] # AUTH_PASSWORD
            THEN result = "WrongSecret" /\ AUTHORIZED_USERS' = AUTHORIZED_USERS
          ELSE IF supplied
            THEN /\ result = "Authorized"
                 /\ AUTHORIZED_USERS' = AUTHORIZED_USERS \cup {p}
                 /\ (p \in AUTHORIZED_USERS =>
                       AUTHORIZED_USERS' = AUTHORIZED_USERS)
          ELSE AUTHORIZED_USERS' = AUTHORIZED_USERS

\* C7: every step that handles /auth answers in the order owner, no secret
\* configured, wrong secret, authorized, and changes AUTHORIZED_USERS only by
\* adding the principal on success.
C7_AuthorizeOrder == [][C7_AuthStep]_vars

\* C7 witness: user 1 supplied the configured secret and is authorized.
C7_Witness ==
  /\ last.handler = "cmd_auth"
  /\ last.upd.user = 1
  /\ last.upd.text = <<"/auth", "pw">>
  /\ AUTH_PASSWORD = "pw"
  /\ last.sends[1].body = <<"Authorized">>
  /\ AUTHORIZED_USERS = {1}

\* C8: session state is per chat.  In every state, for every chat c, the mode
\* read for c is the one of the last /chat or /forward received in c (Forward
\* if there was none) and the model read for c is the one of the last
\* /model <name> received in c (the default if there was none), whatever was
\* received in the other chats.
C8_SessionPerChat ==
  \A c \in Chats :
    /\ get_mode(c) = ModeOf(c)
    /\ get_model(c) = ModelOf(c)

\* C8 witness: chat 1 was switched to Chat mode and to another model, then the
\* owner's chat was switched to Forward mode; chat 1 kept both, and the group,
\* never set, reads the defaults.
C8_Witness ==
  /\ last.upd.chat = 3
  /\ last.upd.text = <<"/forward">>
  /\ issued[1] = [mode |-> "chat", model |-> "gpt-4o"]
  /\ get_mode(1) = "chat"
  /\ get_model(1) = "gpt-4o"
  /\ get_mode(3) = "forward"
  /\ GroupChat \notin DOMAIN CHAT_MODE
  /\ get_mode(GroupChat) = "forward"
  /\ get_model(GroupChat) = DEFAULT_MODEL

\* The step of C9: reply-bridge entries are never removed or changed, and every text
\* reply in chat D to a header h that was sent to D for sender s is sent on,
\* text unchanged, to s's private chat, however many updates (other messages,
\* commands, earlier replies to h) were handled since h was recorded.
C9_Step ==
  /\ \A k \in DOMAIN REPLY_MAP :
       k \in DOMAIN REPLY_MAP' /\ REPLY_MAP'[k] = REPLY_MAP[k]
  /\ LET u == last'.upd
     IN (IsReplyMessage(u) /\ u.text # <<>>) =>
          \A x \in headers :
            (x[1] = u.chat /\ x[2] = u.reply_to) =>
              /\ last'.sends # <<>>
              /\ last'.sends[1].kind = "bridge"
              /\ last'.sends[1].to = x[3]
              /\ ChatTypeOf(x[3]) = "private"
              /\ last'.sends[1].body = u.text

\* C9: no step removes or changes a reply-bridge entry, and every step that
\* handles a text reply to a recorded header sends the text on unchanged to
\* the header's sender.
C9_EntriesPersist == [][C9_Step]_vars

\* C9 witness: the third update is a reply in the group to header 1, sent two
\* updates earlier; its text reached user 1 unchanged.
C9_Witness ==
  /\ nUpd = 3
  /\ last.upd.chat = GroupChat
  /\ last.upd.id = 3
  /\ last.upd.reply_to = 1
  /\ last.upd.text = <<"hi", "a<b">>
  /\ <<GroupChat, 1, 1>> \in headers
  /\ last.sends[1] = [to |-> 1, kind |-> "bridge", body |-> <<"hi", "a<b">>,
                      uid |-> None, ref |-> None, ok |-> TRUE]

\* C10: in every state the reply bridge has an entry for (d, h) exactly when
\* the transport accepted a header send to d and gave it message id h; the
\* entry's value is the sender the header was made for.
C10_EntryIffHeader ==
  /\ DOMAIN REPLY_MAP = HeaderKeys
  /\ \A x \in headers : REPLY_MAP[<<x[1], x[2]>>] = x[3]

\* C10 witness: of the two header sends of one message, the one to the owner's
\* chat failed and the one to the group succeeded: one entry, for the group.
C10_Witness ==
  /\ FORWARD_TO = <<3, GroupChat>>
  /\ Len(SendsOfKind("header")) = 2
  /\ ~SendsOfKind("header")[1].ok
  /\ SendsOfKind("header")[2].ok
  /\ DOMAIN REPLY_MAP = {<<GroupChat, 1>>}
  /\ REPLY_MAP[<<GroupChat, 1>>] = 1

\* The chats the last handler sent a content copy to, and the chats whose
\* header send it saw accepted, in order.
CopyTargets == [i \in 1..Len(SendsOfKind("copy")) |-> SendsOfKind("copy")[i].to]

AcceptedHeaders == SelectSeq(SendsOfKind("header"), LAMBDA e : e.ok)

AcceptedHeaderTargets == [i \in 1..Len(AcceptedHeaders) |-> AcceptedHeaders[i].to]

\* The step of C11, forward_if_needed on a non-owner's private message: a
\* header is sent to every configured destination other than the source, in
\* order, whichever of the sends and copies fail; a message without text is
\* copied to every destination that accepted its header; and the reply bridge
\* gains exactly one entry, for the sender, per accepted header, whatever
\* happened to the copies and to the other destinations.
C11_Step ==
  LET u == last'.upd
      new == (DOMAIN REPLY_MAP') \ (DOMAIN REPLY_MAP)
  IN ( /\ last'.handler \in {"forward_if_needed", "handle_message"}
       /\ u.type = "private"
       /\ u.user \notin OWNER_IDS ) =>
       /\ HeaderTargets' = OtherTargets(u.chat)
       /\ (u.text = <<>> => CopyTargets' = AcceptedHeaderTargets')
       /\ { k[1] : k \in new } =
            { AcceptedHeaderTargets'[i] : i \in 1..Len(AcceptedHeaders') }
       /\ Cardinality(new) = Len(AcceptedHeaders')
       /\ \A k \in new : REPLY_MAP'[k] = u.user
       /\ \A k \in DOMAIN REPLY_MAP : REPLY_MAP'[k] = REPLY_MAP[k]

\* C11: forwarding fails per destination.  Every step that forwards goes
\* through all the configured destinations although a header send or a
\* content copy failed on the way, and every destination whose header was
\* accepted has its reply-bridge entry.
C11_PartialFailure == [][C11_Step]_vars

\* C11 witness: a message without text from user 1; the header to the owner's
\* chat was refused, the group still got header and copy, and the copy to the
\* group failed: the group's entry is there.
C11_Witness ==
  /\ FORWARD_TO = <<3, GroupChat>>
  /\ last.handler = "forward_if_needed"
  /\ last.upd.chat = 1
  /\ last.upd.text = <<>>
  /\ HeaderTargets = <<3, GroupChat>>
  /\ ~SendsOfKind("header")[1].ok
  /\ SendsOfKind("header")[2].ok
  /\ CopyTargets = <<GroupChat>>
  /\ ~SendsOfKind("copy")[1].ok
  /\ <<GroupChat, 1>> \in DOMAIN REPLY_MAP
  /\ <<3, 1>> \notin DOMAIN REPLY_MAP

\* The last handler's call of the AI provider raised.
ProviderFailed == last.ai # <<>> /\ ~last.ai[1].ok

\* What C12 says of a step whose provider call failed, but for the reply
\* bridge: one answer, to the chat of the message, that begins with the
\* failure marker and no other reply; the handler raises only when the
\* transport refused that answer; mode, model and authorizations are as before.
C12_Contained ==
  LET u == last'.upd
      answers == SendsOfKind("answer")'
  IN /\ Len(answers) = 1
     /\ answers[1].to = u.chat
     /\ Head(answers[1].body) = "Error from GPT"
     /\ SendsOfKind("denied")' = <<>>
     /\ (last'.raised => ~answers[1].ok)
     /\ u.user \in OWNER_IDS \cup AUTHORIZED_USERS
     /\ CHAT_MODE' = CHAT_MODE
     /\ MODEL_PER_CHAT' = MODEL_PER_CHAT
     /\ AUTHORIZED_USERS' = AUTHORIZED_USERS

\* C12 as stated: a failing provider call is answered once with the failure
\* marker, and the step changes neither session, nor authorizations, nor the
\* reply bridge.
C12_NoStateChange ==
  [][ProviderFailed' => (C12_Contained /\ REPLY_MAP' = REPLY_MAP)]_vars

\* C12 amended: a failing provider call is answered once with the failure
\* marker and changes neither session nor authorizations; the reply bridge
\* keeps its entries and gains those of the headers that were accepted when
\* the same message was forwarded before the call; after the step the runtime
\* takes the next update.
C12_FailureContained ==
  /\ [][ProviderFailed' =>
         /\ C12_Contained
         /\ \A k \in DOMAIN REPLY_MAP :
              k \in DOMAIN REPLY_MAP' /\ REPLY_MAP'[k] = REPLY_MAP[k]
         /\ Cardinality((DOMAIN REPLY_MAP') \ (DOMAIN REPLY_MAP)) =
              Len(AcceptedHeaders')
         /\ (last'.upd.user \in OWNER_IDS => REPLY_MAP' = REPLY_MAP)]_vars
  /\ [](ProviderFailed => ENABLED update_done)

\* C12 witness: user 1, authorized by password, wrote in Chat mode; the header
\* to the group was accepted and recorded, the provider failed, and the one
\* answer carries the failure marker.
C12_Witness ==
  /\ ProviderFailed
  /\ last.upd.user = 1
  /\ AUTHORIZED_USERS = {1}
  /\ Len(AcceptedHeaders) = 1
  /\ DOMAIN REPLY_MAP = {<<GroupChat, 1>>}
  /\ Len(SendsOfKind("answer")) = 1
  /\ SendsOfKind("answer")[1].body = <<"Error from GPT">>
  /\ SendsOfKind("answer")[1].ok
  /\ ~last.raised

\* C13 as stated: a non-owner's private message without text, with a
\* destination other than its chat configured, is forwarded: every such
\* destination is sent the header and, when it accepted the header, right
\* after it the content copy.  (It holds of forward_if_needed called on its
\* own, under SpecForward; under Spec the message handler, registered for
\* text messages only, is never run for such a message.)
C13_NonTextForwarded ==
  LET u == last.upd
  IN ( /\ u.type = "private"
       /\ u.text = <<>>
       /\ u.user \notin OWNER_IDS
       /\ HasOtherTarget(u) ) =>
       /\ HeaderTargets = OtherTargets(u.chat)
       /\ CopyTargets = AcceptedHeaderTargets
       /\ \A i \in 1..Len(last.sends) :
            last.sends[i].kind = "copy" =>
              /\ i > 1
              /\ last.sends[i - 1].kind = "header"
              /\ last.sends[i - 1].to = last.sends[i].to

\* The calls the last handler made to deliver a reply through the bridge.
BridgeSends == SelectSeq(last.sends, LAMBDA e : e.kind \in BridgeKinds)

\* C14 as stated, on the reply-bridge delivery, a call made through
\* _safe_send: when the transport answers the call with RetryAfter, the same
\* call is made exactly once more, and when that second call is accepted the
\* replier gets no failure notice; no call is made more than twice.
C14_RetryOnce ==
  /\ Len(BridgeSends) <= 2
  /\ last.delivery = "retry" =>
       /\ Len(BridgeSends) = 2
       /\ BridgeSends[2].to = BridgeSends[1].to
       /\ BridgeSends[2].body = BridgeSends[1].body
       /\ (BridgeSends[2].ok => SendsOfKind("notice") = <<>>)

\* The step of C15, a reply whose delivery the transport refuses with
\* Forbidden (the target blocked or removed the bot): the delivery was tried
\* once, the next and last call is the notice, sent in the chat of the reply
\* (as an answer to it when that chat is a group), and the reply bridge is as
\* before, the entry of the header included.
C15_Step ==
  LET u == last'.upd
      key == <<u.chat, u.reply_to>>
  IN last'.delivery = "forbidden" =>
       /\ last'.handler = "handle_reply"
       /\ Len(last'.sends) = 2
       /\ last'.sends[1].kind \in BridgeKinds
       /\ ~last'.sends[1].ok
       /\ key \in DOMAIN REPLY_MAP
       /\ last'.sends[1].to = REPLY_MAP[key]
       /\ last'.sends[2].kind = "notice"
       /\ last'.sends[2].to = u.chat
       /\ last'.sends[2].ref = IF u.type = "private" THEN None ELSE u.id
       /\ last'.sends[2].body = <<"Cannot deliver">>
       /\ REPLY_MAP' = REPLY_MAP
       /\ nextId'[REPLY_MAP[key]] = nextId[REPLY_MAP[key]]

\* C15: every step in which the target refuses the bridge delivery tells the
\* replier, in the chat of the reply, does not try the delivery again and
\* keeps the reply-bridge entry.
C15_BlockedNotice == [][C15_Step]_vars

\* C15 witness: a reply in the group to user 1's header; user 1 has blocked
\* the bot; the replier got the notice and the entry is still there.
C15_Witness ==
  /\ last.handler = "handle_reply"
  /\ last.delivery = "forbidden"
  /\ last.upd.chat = GroupChat
  /\ <<GroupChat, last.upd.reply_to>> \in DOMAIN REPLY_MAP
  /\ REPLY_MAP[<<GroupChat, last.upd.reply_to>>] = 1
  /\ Len(last.sends) = 2
  /\ last.sends[1].to = 1
  /\ last.sends[2].kind = "notice"
  /\ last.sends[2].to = GroupChat
  /\ last.sends[2].ok

\* C16: for every sender the retained list is at most five long and is the
\* last five (or fewer) of the keyword messages the sender wrote in groups, in
\* arrival order; a sender without such a message has no list.  A message
\* without keyword or in a private chat adds nothing to either side.
C16_LastFiveRetained ==
  \A p \in Users :
    LET kept == DictGet(user_messages, p, <<>>)
        n == Len(arrived[p])
    IN /\ Len(kept) <= 5
       /\ Len(kept) = IF n < 5 THEN n ELSE 5
       /\ \A i \in 1..Len(kept) : kept[i] = arrived[p][n - Len(kept) + i]
       /\ (p \in DOMAIN user_messages <=> n > 0)

\* C16 witness: user 1 wrote six keyword messages, the first unlike the
\* second; the list holds the second to the sixth.
C16_Witness ==
  /\ Len(arrived[1]) = 6
  /\ arrived[1][1] # arrived[1][2]
  /\ user_messages[1] = SubSeq(arrived[1], 2, 6)
  /\ Len(user_messages[1]) = 5

\* C17 as stated: while the completion of one chat's message is pending, the
\* runtime can take the oldest waiting update when it belongs to another
\* chat.
C17_OthersRouted ==
  \A t \in tasks :
    ( /\ t.pc = "ai"
      /\ inbox # <<>>
      /\ Head(inbox).upd.chat # t.upd.chat ) => ENABLED take

\* C18: mode and model take effect in receipt order.  A message handled by
\* handle_message runs with the mode of the last /chat or /forward received
\* before it in its chat, and its completion is asked of the model of the
\* last /model received before it there, although the model is read after
\* the awaits of the forwarding sends and later commands may be waiting; once
\* nothing is waiting or suspended, every chat has the mode and model of the
\* last command received there.
C18_ReceiptOrder ==
  /\ \A t \in tasks :
       Dispatch(t.upd) = "handle_message" =>
         /\ t.mode = t.want.mode
         /\ (t.pc \in {"ai", "answer"} => t.model = t.want.model)
  /\ (tasks = {} /\ inbox = <<>>) =>
       \A c \in Chats : get_mode(c) = ModeOf(c) /\ get_model(c) = ModelOf(c)

\* C18 witness: user 1's message, received in Chat mode with the default
\* model, was forwarded and its completion is pending with the default model,
\* while /model gpt-4o, received later in the same chat, waits in the queue.
C18_Witness ==
  \E t \in tasks :
    /\ t.pc = "ai"
    /\ t.upd.chat = 1
    /\ t.mode = "chat"
    /\ t.model = DEFAULT_MODEL
    /\ <<GroupChat, 1>> \in DOMAIN REPLY_MAP
    /\ inbox # <<>>
    /\ Head(inbox).upd.chat = 1
    /\ Head(inbox).upd.text = <<"/model", "gpt-4o">>

\* The step of C19, the runtime taking a reply to a header that the
\* transport has put into the destination chat: the entry of the header is in
\* REPLY_MAP and the handler awaits the delivery to the header's sender.
C19_Step ==
  ( /\ inbox # <<>>
    /\ Len(inbox') = Len(inbox) - 1
    /\ Head(inbox).upd.reply_to # None ) =>
    LET u == Head(inbox).upd
    IN \A x \in headers :
         (x[1] = u.chat /\ x[2] = u.reply_to) =>
           /\ <<u.chat, u.reply_to>> \in DOMAIN REPLY_MAP
           /\ \E t \in tasks' :
                t.upd = u /\ t.pc = "deliver" /\ t.to = x[3]

\* C19: no reply to a header that is in its destination chat is looked up
\* before the header's entry is in REPLY_MAP, whenever the reply arrives.
C19_InsertBeforeLookup == [][C19_Step]_vars

\* C19 witness: a reply arrived when its header was in the group but not yet
\* in REPLY_MAP; it was looked up later and its delivery is awaited.
C19_Witness ==
  \E t \in tasks :
    /\ t.pc = "deliver"
    /\ t.want.early
    /\ t.upd.chat = GroupChat
    /\ t.to = 1

\* The messages of C20: a text that is not a command, written by a non-owner
\* in its private chat as a reply to a message under whose id the reply
\* bridge has no entry.
IsUnresolvedReply(u) ==
  /\ u.type = "private"
  /\ u.user \notin OWNER_IDS
  /\ u.reply_to # None
  /\ u.text # <<>>
  /\ ~IsCommand(u.text)
  /\ bridge_key(u) \notin DOMAIN REPLY_MAP

\* C20 as stated: a non-owner's private reply that resolves to no header
\* falls through to the later steps like a message that is not a reply: it is
\* sent as a header to every configured destination other than its own chat
\* and, when its chat is in Chat mode, the chat step handles it (a provider
\* call and its answer, or the access notice).  (The code registers
\* handle_reply for every reply and the first matching handler is the only
\* one that runs: handle_reply returns at the failed lookup and nothing
\* else is done with the message.)
C20_UnresolvedReplyFallsThrough ==
  LET u == last.upd
  IN IsUnresolvedReply(u) =>
       /\ HeaderTargets = OtherTargets(u.chat)
       /\ ModeOf(u.chat) = "chat" => AiChat

\* The configured destinations, as a set.
ForwardTargetSet == { FORWARD_TO[i] : i \in 1..Len(FORWARD_TO) }

\* C21: in every reachable state each reply-bridge entry (d, h) -> u has d
\* among the configured destinations, u not an owner and d other than u's
\* private chat (which carries u's id); and every bridged reply is delivered
\* to a chat other than the one it was written in, and never to an owner.
C21_BridgeEntries ==
  /\ \A k \in DOMAIN REPLY_MAP :
       /\ k[1] \in ForwardTargetSet
       /\ REPLY_MAP[k] \notin OWNER_IDS
       /\ k[1] # REPLY_MAP[k]
  /\ \A i \in 1..Len(BridgeSends) :
       /\ BridgeSends[i].to # last.upd.chat
       /\ BridgeSends[i].to \notin OWNER_IDS

\* C21 witness: user 1's own chat is the first configured destination; its
\* message was recorded for the group only, and a reply written in the group
\* has been delivered to chat 1.
C21_Witness ==
  /\ FORWARD_TO = <<1, GroupChat>>
  /\ DOMAIN REPLY_MAP = {<<GroupChat, 1>>}
  /\ REPLY_MAP[<<GroupChat, 1>>] = 1
  /\ last.handler = "handle_reply"
  /\ last.upd.chat = GroupChat
  /\ last.upd.user = 3
  /\ Len(BridgeSends) = 1
  /\ BridgeSends[1].to = 1
  /\ BridgeSends[1].ok

\* C22: AUTHORIZED_USERS only grows (every step keeps the users it holds),
\* never contains an owner, and stays empty when no password is configured;
\* without a configured password the AI provider is called for owners'
\* messages only.
C22_AuthorizedSet ==
  /\ [][AUTHORIZED_USERS \subseteq AUTHORIZED_USERS']_vars
  /\ [](AUTHORIZED_USERS \cap OWNER_IDS = {})
  /\ [](AUTH_PASSWORD = "" =>
          /\ AUTHORIZED_USERS = {}
          /\ (last.ai # <<>> => last.upd.user \in OWNER_IDS))

\* C22 witness: user 1 authorized itself earlier; now the owner has sent
\* /auth with the configured password, was told it has access already, and
\* AUTHORIZED_USERS holds user 1 and nobody else.
C22_Witness ==
  /\ AUTH_PASSWORD = "pw"
  /\ AUTHORIZED_USERS = {1}
  /\ last.handler = "cmd_auth"
  /\ last.upd.user = 3
  /\ last.upd.text = <<"/auth", "pw">>
  /\ last.sends # <<>>
  /\ last.sends[1].body = <<"Owner">>

====
